---- MODULE Spec2Model ----
(***************************************************************************)
(* Earn Agent (src/src/main.ts): the busy-flag gate around the             *)
(* refresh-and-decide cycles, the intake of the reasoning service's text,  *)
(* the step executor with its amount resolution, and the transaction       *)
(* lifecycle driver.                                                       *)
(*                                                                         *)
(* JavaScript runs one task at a time and a task gives up control only at  *)
(* an await on a pending promise.  One action of the model is therefore    *)
(* the code one task runs from the completion of the call it awaits to the *)
(* next call it awaits; task[p].pc names the call task p waits for.  The    *)
(* awaits on wallet.getAddress() resolve in the microtask queue, where no  *)
(* timer or input callback can run, and are folded into the enclosing      *)
(* action.                                                                 *)
(***************************************************************************)
EXTENDS Integers, Sequences, FiniteSets, TLC

(* ------------------------------ bounds -------------------------------- *)

\* Longest steps array the reasoning service returns.
MaxSteps == 2

\* Longest transaction batch an action session returns.
MaxTxs == 2

\* Longest reasoning-service text, in tokens.
MaxTextLen == 4

\* Most /v1/yields/balances chunks one refresh needs (ceil(#yields / 15)).
MaxChunks == 1

(* ----------------------------- constants ------------------------------ *)

\* for (let i = 0; i < 3; i++): construction attempts per transaction.
MAX_CONSTRUCT_ATTEMPTS == 3

(* ------------------------------ the tasks ----------------------------- *)

\* The invocations of the setInterval callback that can be alive at once.
TimerTasks == {"t1", "t2"}

\* main() and the timer callback invocations.
Tasks == {"main"} \cup TimerTasks

(* --------------------------- values and inputs ------------------------ *)

\* A step's amount is optional: the JSON may leave it out.
Undefined == "undefined"

\* JavaScript truthiness of an optional string: undefined and "" are falsy.
Falsy(s) == s \in {Undefined, ""}

\* Decimal strings the aggregator reports as balances.
BalanceStrs == {"", "0", "-3", "50", "abc"}

\* Amounts a step can carry: none, or a string; the JSON is not validated,
\* so the string can be empty ("" also stands for the number 0, falsy too).
StepAmounts == {Undefined, "", "7"}

\* Directions a step can carry; the JSON is not validated against the
\* "ENTER" | "EXIT" type, so any other string can arrive too.
StepTypes == {"ENTER", "EXIT", "SWAP"}

YieldIds == {"Y1"}

\* Underlying token of a yield: an address, or none (native).
TokenAddrs == {Undefined, "0xT"}

StepKinds == [type : StepTypes, integrationId : YieldIds, amount : StepAmounts]

RECURSIVE SeqsUpTo(_, _)
SeqsUpTo(S, n) ==
    IF n = 0 THEN {<<>>}
    ELSE LET shorter == SeqsUpTo(S, n - 1)
         IN  shorter \cup {Append(s, x) : s \in {t \in shorter : Len(t) = n - 1}, x \in S}

\* The steps arrays of EarnAgentOp the reasoning service can return.
StepSeqs == SeqsUpTo(StepKinds, MaxSteps)

\* parseFloat on the strings above; NaN is [nan |-> TRUE].
parseFloat(s) ==
    CASE s = "0"  -> [nan |-> FALSE, v |-> 0]
      [] s = "-3" -> [nan |-> FALSE, v |-> -3]
      [] s = "50" -> [nan |-> FALSE, v |-> 50]
      [] s = "7"  -> [nan |-> FALSE, v |-> 7]
      [] OTHER    -> [nan |-> TRUE, v |-> 0]

\* A faulty variant, the comparison without its equality: parseFloat(x) < 0.
NotPositive_strict(s) == ~parseFloat(s).nan /\ parseFloat(s).v < 0

\* parseFloat(x) <= 0 : false for NaN.
NotPositive(s) == ~parseFloat(s).nan /\ parseFloat(s).v <= 0

(* ------------------- the reasoning service's text --------------------- *)

\* The text as a sequence of tokens: prose, the opening fence ```json, a
\* bare fence ```, and JSON documents of the shapes the intake tells apart.
\*   "null"     null              "emptyobj"  {} (or a number)
\*   "nosteps"  {"a": 1}          "badsteps"  {"steps": 5}
\*   "steps"    {"steps": [...]}  (the array is drawn separately)
JsonDocs == {"null", "emptyobj", "nosteps", "badsteps", "steps"}
Tokens == {"txt", "open", "close"} \cup JsonDocs

AiTexts == SeqsUpTo(Tokens, MaxTextLen)

\* A faulty variant, the regex with its tag optional: /```(json)?/.
IsOpenFence_untagged(tok) == tok \in {"open", "close"}

\* Where /```json/ can match.
IsOpenFence(tok) == tok = "open"

\* Where the closing ``` can match: a bare fence, or the first three
\* characters of another ```json.
IsCloseFence(tok) == tok \in {"open", "close"}

\* scenarioRegex.exec(aiText): the first ```json and, lazily, the first ```
\* after it.  <<0, 0>> when there is no match, else <<open, close>> indexes.
RegexExec(text) ==
    LET opens == {i \in 1..Len(text) : IsOpenFence(text[i])}
    IN  IF opens = {} THEN <<0, 0>>
        ELSE LET o == CHOOSE i \in opens : \A j \in opens : i <= j
                 closes == {j \in (o + 1)..Len(text) : IsCloseFence(text[j])}
             IN  IF closes = {} THEN <<0, 0>>
                 ELSE <<o, CHOOSE j \in closes : \A k \in closes : j <= k>>

\* JSON.parse(match[1].trim()) on the tokens between the fences: one JSON
\* document and nothing else parses; anything else throws ("throw").
JsonParse(body) ==
    IF Len(body) = 1 /\ body[1] \in JsonDocs THEN body[1] ELSE "throw"

\* A faulty variant, the regex anchored at the end of the text:
\* /```json([\s\S]*?)```$/.
parseOpFromCodeBlock_anchored(text) ==
    LET m == RegexExec(text)
    IN  /\ m[1] # 0
        /\ m[2] = Len(text) /\ text[m[2]] = "close"
        /\ JsonParse(SubSeq(text, m[1] + 1, m[2] - 1)) = "steps"

\* parseOpFromCodeBlock: TRUE when it returns the object (whose steps array
\* is then iterated), FALSE when it returns null.
parseOpFromCodeBlock(text) ==
    LET m == RegexExec(text)
    IN  IF m[1] = 0 THEN FALSE
        ELSE LET opsObj == JsonParse(SubSeq(text, m[1] + 1, m[2] - 1))
             IN  CASE opsObj = "throw"    -> FALSE  \* JSON.parse throws, caught
                   [] opsObj = "null"     -> FALSE  \* Object.keys(null) throws, caught
                   [] opsObj = "emptyobj" -> FALSE  \* no keys
                   [] opsObj = "nosteps"  -> FALSE  \* !Array.isArray(undefined)
                   [] opsObj = "badsteps" -> FALSE  \* !Array.isArray(5)
                   [] OTHER               -> TRUE

(* ------------------------------ the state ----------------------------- *)

VARIABLES
    alive,          \* the process has not called process.exit
    timerOn,        \* setInterval has been called
    earnAgentBusy,  \* the busy flag
    earnAgentData,  \* the account-state snapshot: the generation of each part
    task,           \* per task: where it waits, its locals, its history
    event           \* history: the input the latest step consumed

vars == <<alive, timerOn, earnAgentBusy, earnAgentData, task, event>>

\* Arguments of the request in flight.
NoReq == [endpoint |-> "", amount |-> Undefined, tokenAddress |-> Undefined, id |-> 0]

\* History of the transaction being driven.
NoTx == [constructs |-> 0, built |-> FALSE, signs |-> 0, submits |-> 0,
         polled |-> FALSE, lastStatus |-> "none"]

\* The input of a step: "trigger" (a timer tick or a line typed at the
\* prompt), "reply" (the reasoning service's text: its first fenced block,
\* whether text follows the block, the length of the steps array), "staked"
\* or "balance" (the amount an amount query returned), "session" ("batch"
\* or "error", and how many transactions of the batch are not marked
\* SKIPPED), "construct", "sign", "submit", "status" (the outcome of that
\* call, how many transactions of the batch not marked SKIPPED came after
\* the one it was for, and how many steps came after the current one), "retry"
\* (the construction delay ran out: "again" or "giveup"), "refreshed" (a
\* refresh completed, for whom); and how the step left the cycle, if it did.
NoEvent == [in |-> "none", by |-> "none", val |-> "none", trailing |-> FALSE,
            nsteps |-> 0, rest |-> 0, ended |-> "no"]

Input(kind, value) == [NoEvent EXCEPT !.in = kind, !.val = value]

\* The transactions after the current one that are not marked SKIPPED.
LaterTxs(t) ==
    {k \in (t.txi + 1)..Len(t.transactions) : t.transactions[k].status # "SKIPPED"}

TxInput(t, kind, value) ==
    [NoEvent EXCEPT !.in = kind, !.val = value, !.rest = Cardinality(LaterTxs(t)),
                    !.nsteps = Len(t.steps) - 1]

\* A task outside every cycle.
BlankTask(where) ==
    [pc |-> where,           \* the call awaited
     kind |-> "none",        \* the cycle: startup, initial, interval, chat
     ret |-> "none",         \* who called refreshEarnAgentData
     refreshed |-> FALSE,    \* history: a refresh completed in this cycle
     chunks |-> 0,           \* /v1/yields/balances calls still to make
     steps |-> <<>>,         \* the steps not yet finished, current first
     req |-> NoReq,
     transactions |-> <<>>,  \* session.transactions
     txi |-> 0,              \* index of the transaction being driven
     attempt |-> 0,          \* i of the construction loop
     cur |-> NoTx]           \* history of that transaction

Home(p) == IF p = "main" THEN "prompt" ELSE "idle"

Init ==
    /\ alive = TRUE
    /\ timerOn = FALSE
    /\ earnAgentBusy = FALSE
    /\ earnAgentData = [yields |-> 0, earningPositions |-> 0, idleTokenBalances |-> 0]
    /\ task = [p \in Tasks |-> BlankTask(IF p = "main" THEN "boot" ELSE "idle")]
    /\ event = NoEvent

(* ------------------- control flow inside one task --------------------- *)
\* The operators below map a task record to the record at its next await.
\* pc "return" and "throw" stand for leaving the cycle's try block.

Return(t) == [t EXCEPT !.pc = "return"]
Throw(t) == [t EXCEPT !.pc = "throw"]

\* refreshEarnAgentData is entered: GET /v2/yields is in flight.
BeginRefresh(t, from) == [t EXCEPT !.pc = "yields", !.ret = from]

\* runAiScenario up to its await: the prompt is built, the chat call is out.
AskAi(t) == [t EXCEPT !.pc = "ai", !.ret = "none"]

\* POST /v1/actions/enter|exit with the resolved amount.
OpenSession(t, finalAmount) ==
    LET type == Head(t.steps).type
    IN  [t EXCEPT !.pc = "session",
                  !.req = [NoReq EXCEPT !.endpoint = IF type = "ENTER" THEN "enter" ELSE "exit",
                                        !.amount = finalAmount]]

\* runScenarioStep up to its first aggregator call.
StartStep(t) ==
    LET step == Head(t.steps)
        u == [t EXCEPT !.transactions = <<>>, !.txi = 0, !.cur = NoTx]
    IN  IF Falsy(step.amount)
        THEN IF step.type = "EXIT"
             THEN [u EXCEPT !.pc = "staked"]
             ELSE [u EXCEPT !.pc = "detail"]
        ELSE OpenSession(u, step.amount)

\* for (const step of op.steps): the loop head.
RunSteps(t) == IF t.steps = <<>> THEN Return(t) ELSE StartStep(t)

\* runScenarioStep returned: the loop moves to the next step.
StepReturns(t) == RunSteps([t EXCEPT !.steps = Tail(@), !.ret = "none", !.req = NoReq])

\* A faulty variant: the step returns after its batch without the refresh.
RECURSIVE NextTx_norefresh(_, _)
NextTx_norefresh(t, k) ==
    IF k > Len(t.transactions)
    THEN StepReturns([t EXCEPT !.txi = 0, !.attempt = 0, !.cur = NoTx])
    ELSE IF t.transactions[k].status = "SKIPPED"
         THEN NextTx_norefresh(t, k + 1)
         ELSE [t EXCEPT !.pc = "construct", !.txi = k, !.attempt = 0,
                        !.req = [NoReq EXCEPT !.id = t.transactions[k].id],
                        !.cur = [NoTx EXCEPT !.constructs = 1]]

\* A faulty variant: the loop without its test of the SKIPPED mark.
NextTx_noskip(t, k) ==
    IF k > Len(t.transactions)
    THEN BeginRefresh([t EXCEPT !.txi = 0, !.attempt = 0, !.req = NoReq, !.cur = NoTx],
                      "step")
    ELSE [t EXCEPT !.pc = "construct", !.txi = k, !.attempt = 0,
                   !.req = [NoReq EXCEPT !.id = t.transactions[k].id],
                   !.cur = [NoTx EXCEPT !.constructs = 1]]

\* for (const tx of transactions), entered at index k: SKIPPED ones are
\* passed over, the first other one gets its first PATCH; past the end the
\* step goes on to its refresh.
RECURSIVE NextTx(_, _)
NextTx(t, k) ==
    IF k > Len(t.transactions)
    THEN BeginRefresh([t EXCEPT !.txi = 0, !.attempt = 0, !.req = NoReq, !.cur = NoTx],
                      "step")
    ELSE IF t.transactions[k].status = "SKIPPED"
         THEN NextTx(t, k + 1)
         ELSE [t EXCEPT !.pc = "construct", !.txi = k, !.attempt = 0,
                        !.req = [NoReq EXCEPT !.id = t.transactions[k].id],
                        !.cur = [NoTx EXCEPT !.constructs = 1]]

\* refreshEarnAgentData returned to its caller.
AfterRefresh(t) ==
    CASE t.ret = "timer" -> BeginRefresh(t, "check")   \* earnAgentIntervalCheck
      [] t.ret = "check" -> AskAi(t)                   \* runAiScenario
      [] t.ret = "step"  -> StepReturns(t)             \* runScenarioStep ends

(* ----------------------- the snapshot's generations ------------------- *)
\* Each part of earnAgentData carries the age of the refresh that wrote it:
\* 0 for the refresh that wrote yields last, 1 for the one before among
\* those still present, 2 for the oldest of three.

YieldsWritten(d) ==
    [yields |-> 0, earningPositions |-> 1,
     idleTokenBalances |-> 1 + (d.idleTokenBalances - d.earningPositions)]

PositionsWritten(d) ==
    [d EXCEPT !.earningPositions = 0,
              !.idleTokenBalances = IF d.idleTokenBalances = 0 THEN 0 ELSE 1]

IdleWritten(d) == [d EXCEPT !.idleTokenBalances = 0]

(* ------------------------- leaving the cycle -------------------------- *)

\* process.exit(1) in main().catch: every task stops.
Exit(ev) ==
    /\ alive' = FALSE
    /\ task' = [q \in Tasks |-> BlankTask("exited")]
    /\ event' = [ev EXCEPT !.ended = "exit"]
    /\ UNCHANGED <<timerOn, earnAgentBusy>>

\* A faulty variant: the flag is cleared at the end of the try block, not in
\* a finally, so a throw leaves it set.
Settle_nofinally(p, t, ev) ==
    IF t.pc \in {"return", "throw"}
    THEN IF t.kind = "startup"
         THEN Exit([ev EXCEPT !.by = p])
         ELSE /\ task' = [task EXCEPT ![p] = BlankTask(Home(p))]
              /\ earnAgentBusy' = (t.pc = "throw")
              /\ event' = [ev EXCEPT !.by = p, !.ended = t.pc]
              /\ UNCHANGED <<alive, timerOn>>
    ELSE /\ task' = [task EXCEPT ![p] = t]
         /\ event' = [ev EXCEPT !.by = p]
         /\ UNCHANGED <<alive, timerOn, earnAgentBusy>>

\* Task p reaches record t on input ev.  A return or a throw ends the cycle:
\* the catch logs, the finally clears the flag, main goes back to the prompt
\* and a timer callback ends.  A throw during startup rejects main().
Settle(p, t, ev) ==
    IF t.pc \in {"return", "throw"}
    THEN IF t.kind = "startup"
         THEN Exit([ev EXCEPT !.by = p])
         ELSE /\ task' = [task EXCEPT ![p] = BlankTask(Home(p))]
              /\ earnAgentBusy' = FALSE
              /\ event' = [ev EXCEPT !.by = p, !.ended = t.pc]
              /\ UNCHANGED <<alive, timerOn>>
    ELSE /\ task' = [task EXCEPT ![p] = t]
         /\ event' = [ev EXCEPT !.by = p]
         /\ UNCHANGED <<alive, timerOn, earnAgentBusy>>

(* ------------------------------ startup ------------------------------- *)

\* main() up to the first GET of the startup refresh; Wallet.fromPhrase
\* throws on a bad mnemonic.
Boot ==
    /\ alive /\ task["main"].pc = "boot"
    /\ \E mnemonicOk \in BOOLEAN :
         IF mnemonicOk
         THEN /\ task' = [task EXCEPT !["main"] =
                            BeginRefresh([BlankTask("boot") EXCEPT !.kind = "startup"], "startup")]
              /\ event' = NoEvent
              /\ UNCHANGED <<alive, timerOn, earnAgentBusy>>
         ELSE Exit(NoEvent)
    /\ UNCHANGED earnAgentData

(* --------------------------- refreshEarnAgentData --------------------- *)

\* fetchAllYields returns; filterSortYields; fetchEarningPositions makes one
\* POST per chunk of 15 yields, none when no yield is left after the filter.
YieldsResp(p) ==
    /\ alive /\ task[p].pc = "yields"
    /\ \E ok \in BOOLEAN, n \in 0..MaxChunks :
         IF ~ok
         THEN /\ n = 0
              /\ Settle(p, Throw(task[p]), NoEvent)
              /\ UNCHANGED earnAgentData
         ELSE IF n > 0
              THEN /\ earnAgentData' = YieldsWritten(earnAgentData)
                   /\ Settle(p, [task[p] EXCEPT !.pc = "positions", !.chunks = n], NoEvent)
              ELSE /\ earnAgentData' = PositionsWritten(YieldsWritten(earnAgentData))
                   /\ Settle(p, [task[p] EXCEPT !.pc = "idle_balances"], NoEvent)

\* One POST /v1/yields/balances returns.
PositionsResp(p) ==
    /\ alive /\ task[p].pc = "positions"
    /\ \E ok \in BOOLEAN :
         IF ~ok
         THEN /\ Settle(p, Throw([task[p] EXCEPT !.chunks = 0]), NoEvent)
              /\ UNCHANGED earnAgentData
         ELSE IF task[p].chunks > 1
              THEN /\ Settle(p, [task[p] EXCEPT !.chunks = @ - 1], NoEvent)
                   /\ UNCHANGED earnAgentData
              ELSE /\ earnAgentData' = PositionsWritten(earnAgentData)
                   /\ Settle(p, [task[p] EXCEPT !.pc = "idle_balances", !.chunks = 0], NoEvent)

\* fetchUserBalances returns and the refresh with it.  After the startup
\* refresh main() registers the timer, sets the flag and starts the
\* initial earnAgentIntervalCheck, with no await in between.
IdleBalancesResp(p) ==
    /\ alive /\ task[p].pc = "idle_balances"
    /\ \E ok \in BOOLEAN :
         IF ~ok
         THEN /\ Settle(p, Throw(task[p]), NoEvent)
              /\ UNCHANGED earnAgentData
         ELSE /\ earnAgentData' = IdleWritten(earnAgentData)
              /\ IF task[p].ret = "startup"
                 THEN /\ timerOn' = TRUE
                      /\ earnAgentBusy' = TRUE
                      /\ task' = [task EXCEPT ![p] =
                                    BeginRefresh([task[p] EXCEPT !.kind = "initial"], "check")]
                      /\ event' = [Input("refreshed", "startup") EXCEPT !.by = p]
                      /\ UNCHANGED alive
                 ELSE Settle(p, AfterRefresh([task[p] EXCEPT !.refreshed = TRUE]),
                             Input("refreshed", task[p].ret))

(* ------------------------------ triggers ------------------------------ *)

\* A faulty variant: the timer callback without its test of the flag.
TimerSeesBusy_never == FALSE

\* if (earnAgentBusy) at the head of the timer callback.
TimerSeesBusy == earnAgentBusy

\* A faulty variant: the prompt loop without its test of the flag.
PromptSeesBusy_never == FALSE

\* if (earnAgentBusy) after the prompt returned.
PromptSeesBusy == earnAgentBusy

\* The timer fires while the flag is set: the callback logs and returns.
TickSkipped ==
    /\ alive /\ timerOn
    /\ TimerSeesBusy
    /\ event' = Input("trigger", "none")
    /\ UNCHANGED <<alive, timerOn, earnAgentBusy, earnAgentData, task>>

\* The callback invocation a firing creates: the first one not running.
FreeTimerTask ==
    IF task["t1"].pc = "idle" THEN "t1"
    ELSE IF task["t2"].pc = "idle" THEN "t2" ELSE "none"

\* The timer fires while the flag is clear: the callback sets the flag and
\* awaits the first GET of its refresh.
TickStart(p) ==
    /\ alive /\ timerOn
    /\ ~TimerSeesBusy
    /\ p = FreeTimerTask
    /\ earnAgentBusy' = TRUE
    /\ task' = [task EXCEPT ![p] =
                  BeginRefresh([BlankTask("idle") EXCEPT !.kind = "interval"], "timer")]
    /\ event' = Input("trigger", "none")
    /\ UNCHANGED <<alive, timerOn, earnAgentData>>

\* A line is typed while the flag is set: the loop logs and prompts again.
InputSkipped ==
    /\ alive /\ task["main"].pc = "prompt"
    /\ PromptSeesBusy
    /\ event' = Input("trigger", "none")
    /\ UNCHANGED <<alive, timerOn, earnAgentBusy, earnAgentData, task>>

\* A line is typed while the flag is clear: handleChat, which goes straight
\* to runAiScenario.
InputStart ==
    /\ alive /\ task["main"].pc = "prompt"
    /\ ~PromptSeesBusy
    /\ earnAgentBusy' = TRUE
    /\ task' = [task EXCEPT !["main"] = AskAi([BlankTask("prompt") EXCEPT !.kind = "chat"])]
    /\ event' = Input("trigger", "none")
    /\ UNCHANGED <<alive, timerOn, earnAgentData>>

\* Enquirer.prompt rejects (the prompt is cancelled): main() rejects.
PromptRejected ==
    /\ alive /\ task["main"].pc = "prompt"
    /\ Exit(NoEvent)
    /\ UNCHANGED earnAgentData

(* ---------------------------- runAiScenario --------------------------- *)

\* What the history keeps of a text, read off the text itself: the content
\* of its first ```json ... ``` block ("none" without one, "unparsable" when
\* it is not one JSON document), and whether anything follows that block.
FirstBlockEnd(text) ==
    LET opens == {i \in 1..Len(text) : text[i] = "open"}
        o == CHOOSE i \in opens : \A j \in opens : i <= j
        ends == {j \in 1..Len(text) : j > o /\ text[j] \in {"open", "close"}}
    IN  IF opens = {} \/ ends = {} THEN <<0, 0>>
        ELSE <<o, CHOOSE j \in ends : \A k \in ends : j <= k>>

FirstBlock(text) ==
    LET m == FirstBlockEnd(text)
    IN  IF m[1] = 0 THEN "none"
        ELSE IF m[2] = m[1] + 2 /\ text[m[1] + 1] \in JsonDocs
             THEN text[m[1] + 1]
             ELSE "unparsable"

TextAfterBlock(text) ==
    LET m == FirstBlockEnd(text)
    IN  m[1] # 0 /\ (m[2] < Len(text) \/ text[m[2]] = "open")

\* The texts up to what the intake and the history tell apart.
Profile(text) ==
    [parsed |-> parseOpFromCodeBlock(text),
     block |-> FirstBlock(text),
     trailing |-> TextAfterBlock(text),
     stepsDoc |-> \E i \in 1..Len(text) : text[i] = "steps"]

AiProfiles == {Profile(text) : text \in AiTexts}

\* The chat completion returns: the text is parsed and the first step, if
\* any, runs up to its first aggregator call.
AiResp(p) ==
    /\ alive /\ task[p].pc = "ai"
    /\ \/ Settle(p, Throw(task[p]), Input("reply", "error"))
       \/ \E prof \in AiProfiles, steps \in StepSeqs :
            /\ prof.stepsDoc \/ steps = <<>>
            /\ LET ev == [Input("reply", prof.block) EXCEPT
                              !.trailing = prof.trailing, !.nsteps = Len(steps)]
               IN  IF prof.parsed
                   THEN Settle(p, RunSteps([task[p] EXCEPT !.steps = steps]), ev)
                   ELSE Settle(p, Return(task[p]), ev)
    /\ UNCHANGED earnAgentData

(* --------------------------- runScenarioStep -------------------------- *)

\* POST /v1/yields/{id}/balances returns: "absent" when no entry is tagged
\* staked, else that entry's amount.
StakedResp(p) ==
    /\ alive /\ task[p].pc = "staked"
    /\ \/ Settle(p, Throw(task[p]), Input("staked", "error"))
       \/ \E staked \in {"absent"} \cup BalanceStrs :
            IF staked = "absent" \/ NotPositive(staked)
            THEN Settle(p, StepReturns(task[p]), Input("staked", staked))
            ELSE Settle(p, OpenSession(task[p], staked), Input("staked", staked))
    /\ UNCHANGED earnAgentData

\* GET /v2/yields/{id} returns: the token address, or none (native).
DetailResp(p) ==
    /\ alive /\ task[p].pc = "detail"
    /\ \/ Settle(p, Throw(task[p]), NoEvent)
       \/ \E tokenAddr \in TokenAddrs :
            Settle(p, [task[p] EXCEPT !.pc = "balance",
                                      !.req = [NoReq EXCEPT !.tokenAddress = tokenAddr]],
                   NoEvent)
    /\ UNCHANGED earnAgentData

\* POST /v1/tokens/balances returns: balResp[0]?.amount, undefined when the
\* array is empty or the entry has no amount.
BalanceResp(p) ==
    /\ alive /\ task[p].pc = "balance"
    /\ \/ Settle(p, Throw(task[p]), Input("balance", "error"))
       \/ \E amount \in {Undefined} \cup BalanceStrs :
            LET bal == IF Falsy(amount) THEN "0" ELSE amount
            IN  IF NotPositive(bal)
                THEN Settle(p, StepReturns(task[p]), Input("balance", amount))
                ELSE Settle(p, OpenSession(task[p], bal), Input("balance", amount))
    /\ UNCHANGED earnAgentData

\* The batches an action session can return: ids 1..n, each transaction
\* SKIPPED or not.
Batches ==
    UNION {[1..n -> {"CREATED", "SKIPPED"}] : n \in 0..MaxTxs}

Batch(f) == [k \in DOMAIN f |-> [id |-> k, status |-> f[k]]]

\* POST /v1/actions/enter|exit returns: processTransactions starts.
SessionResp(p) ==
    /\ alive /\ task[p].pc = "session"
    /\ \/ Settle(p, Throw(task[p]), Input("session", "error"))
       \/ \E f \in Batches :
            LET t == [task[p] EXCEPT !.transactions = Batch(f), !.req = NoReq]
            IN  Settle(p, NextTx(t, 1), TxInput(t, "session", "batch"))
    /\ UNCHANGED earnAgentData

(* ------------------------- processTransactions ------------------------ *)

\* A faulty variant: FAILED does not end the polling.
IsTerminalStatus_confirmedOnly(status) == status = "CONFIRMED"

\* A faulty variant: every status ends the polling.
IsTerminalStatus_any(status) == TRUE

\* status.status === "CONFIRMED" or === "FAILED": the breaks of the loop.
IsTerminalStatus(status) == status \in {"CONFIRMED", "FAILED"}

\* A faulty variant: runScenarioStep catches the error and returns.
OnSignError_nextstep(t) == StepReturns([t EXCEPT !.txi = 0, !.attempt = 0, !.cur = NoTx])

\* wallet.signTransaction rejects: nothing catches it in the driver.
OnSignError(t) == Throw(t)

\* A faulty variant: the submit call in a try whose catch goes on.
OnSubmitError_continue(t) == NextTx(t, t.txi + 1)

\* POST .../submit fails: nothing catches it in the driver.
OnSubmitError(t) == Throw(t)

\* A faulty variant: after a failed query the signed payload is posted again.
OnStatusError_resubmit(t) == [t EXCEPT !.pc = "submit", !.cur.submits = @ + 1]

\* A faulty variant: the failed query is repeated after the delay.
OnStatusError_retry(t) == [t EXCEPT !.pc = "poll_delay"]

\* GET .../status fails, or returns a falsy body: .catch(() => null), break.
OnStatusError(t) == NextTx(t, t.txi + 1)

\* The construction loop gave up, or got a falsy body: continue.
Abandon(t) == NextTx(t, t.txi + 1)

\* A faulty variant: one attempt more.
MayRetry_four(i) == i < MAX_CONSTRUCT_ATTEMPTS + 1

\* i < 3 in the construction loop.
MayRetry(i) == i < MAX_CONSTRUCT_ATTEMPTS

\* PATCH /v1/transactions/{id} returns.  "ok": a body with a payload, and the
\* signer is called; "badpayload": a body whose unsignedTransaction does not
\* parse, JSON.parse throws; "falsy": a null body; "error": the call failed,
\* the catch logs and waits 1 s.
ConstructResp(p) ==
    /\ alive /\ task[p].pc = "construct"
    /\ \E r \in {"ok", "badpayload", "falsy", "error"} :
         LET t == task[p]
         IN  CASE r = "ok" ->
                    Settle(p, [t EXCEPT !.pc = "sign", !.cur.built = TRUE, !.cur.signs = @ + 1],
                           TxInput(t, "construct", r))
               [] r = "badpayload" -> Settle(p, Throw(t), TxInput(t, "construct", r))
               [] r = "falsy" -> Settle(p, Abandon(t), TxInput(t, "construct", r))
               [] OTHER -> Settle(p, [t EXCEPT !.pc = "retry_delay"], TxInput(t, "construct", r))
    /\ UNCHANGED earnAgentData

\* The 1 s delay is over: i++, and either the next attempt or the give-up.
RetryDelayDone(p) ==
    /\ alive /\ task[p].pc = "retry_delay"
    /\ LET t == task[p]
           i == t.attempt + 1
       IN  IF MayRetry(i)
           THEN Settle(p, [t EXCEPT !.pc = "construct", !.attempt = i,
                                    !.cur.constructs = @ + 1], TxInput(t, "retry", "again"))
           ELSE Settle(p, Abandon(t), TxInput(t, "retry", "giveup"))
    /\ UNCHANGED earnAgentData

\* wallet.signTransaction settles; on success the signed payload is posted.
SignResp(p) ==
    /\ alive /\ task[p].pc = "sign"
    /\ \E ok \in BOOLEAN :
         IF ok
         THEN Settle(p, [task[p] EXCEPT !.pc = "submit", !.cur.submits = @ + 1],
                     TxInput(task[p], "sign", "ok"))
         ELSE Settle(p, OnSignError(task[p]), TxInput(task[p], "sign", "error"))
    /\ UNCHANGED earnAgentData

\* POST .../submit returns; on success the first status query goes out.
SubmitResp(p) ==
    /\ alive /\ task[p].pc = "submit"
    /\ \E ok \in BOOLEAN :
         IF ok
         THEN Settle(p, [task[p] EXCEPT !.pc = "status", !.cur.polled = TRUE],
                     TxInput(task[p], "submit", "ok"))
         ELSE Settle(p, OnSubmitError(task[p]), TxInput(task[p], "submit", "error"))
    /\ UNCHANGED earnAgentData

StatusReplies == {"CONFIRMED", "FAILED", "PENDING", "error", "null"}

\* GET .../status returns.
StatusResp(p) ==
    /\ alive /\ task[p].pc = "status"
    /\ \E r \in StatusReplies :
         LET t == [task[p] EXCEPT !.cur.lastStatus = r]
         IN  IF r \in {"error", "null"}
             THEN Settle(p, OnStatusError(t), TxInput(t, "status", r))
             ELSE IF IsTerminalStatus(r)
                  THEN Settle(p, NextTx(t, t.txi + 1), TxInput(t, "status", r))
                  ELSE Settle(p, [t EXCEPT !.pc = "poll_delay"], TxInput(t, "status", r))
    /\ UNCHANGED earnAgentData

\* A faulty variant: the polling is given up after one delay.
PollDelayDone_once(p) ==
    /\ alive /\ task[p].pc = "poll_delay"
    /\ Settle(p, NextTx(task[p], task[p].txi + 1), NoEvent)
    /\ UNCHANGED earnAgentData

\* The 2 s delay is over: the next status query goes out.
PollDelayDone(p) ==
    /\ alive /\ task[p].pc = "poll_delay"
    /\ Settle(p, [task[p] EXCEPT !.pc = "status"], NoEvent)
    /\ UNCHANGED earnAgentData

(* --------------------------- the specification ------------------------ *)

Next ==
    \/ Boot
    \/ TickSkipped
    \/ \E p \in TimerTasks : TickStart(p)
    \/ InputSkipped
    \/ InputStart
    \/ PromptRejected
    \/ \E p \in Tasks : YieldsResp(p)
    \/ \E p \in Tasks : PositionsResp(p)
    \/ \E p \in Tasks : IdleBalancesResp(p)
    \/ \E p \in Tasks : AiResp(p)
    \/ \E p \in Tasks : StakedResp(p)
    \/ \E p \in Tasks : DetailResp(p)
    \/ \E p \in Tasks : BalanceResp(p)
    \/ \E p \in Tasks : SessionResp(p)
    \/ \E p \in Tasks : ConstructResp(p)
    \/ \E p \in Tasks : RetryDelayDone(p)
    \/ \E p \in Tasks : SignResp(p)
    \/ \E p \in Tasks : SubmitResp(p)
    \/ \E p \in Tasks : StatusResp(p)
    \/ \E p \in Tasks : PollDelayDone(p)

Spec == Init /\ [][Next]_vars

\* The completion of whatever a task awaits inside a cycle or the startup:
\* an aggregator, signer or reasoning-service call, or a delay.
Responses ==
    \E p \in Tasks :
        \/ YieldsResp(p) \/ PositionsResp(p) \/ IdleBalancesResp(p)
        \/ AiResp(p)
        \/ StakedResp(p) \/ DetailResp(p) \/ BalanceResp(p) \/ SessionResp(p)
        \/ ConstructResp(p) \/ RetryDelayDone(p)
        \/ SignResp(p) \/ SubmitResp(p)
        \/ StatusResp(p) \/ PollDelayDone(p)

\* A status query comes back with something that ends the polling loop.
StatusEnds ==
    \E p \in Tasks : StatusResp(p) /\ task'[p].pc # "poll_delay"

\* The program in an environment in which every call and every delay that
\* is awaited completes (promises settle, timers fire), and in which a
\* transaction that is polled again and again is at some time reported
\* CONFIRMED or FAILED, or its query fails.
LiveSpec == Spec /\ WF_vars(Responses) /\ SF_vars(StatusEnds)

(* ============================== properties ============================ *)

\* Task p is inside a refresh-and-decide cycle: the initial check, an
\* interval cycle or a chat cycle.
InCycle(p) == task[p].kind \in {"initial", "interval", "chat"}

\* Task p is outside every cycle and holds nothing of an earlier one.
AtHome(p) == task[p] = BlankTask(Home(p))

\* C1: in every reachable state at most one refresh-and-decide cycle is in
\* progress, and the busy flag is set while one is.
C1_OneCycleAtATime ==
    /\ Cardinality({p \in Tasks : InCycle(p)}) <= 1
    /\ (\E p \in Tasks : InCycle(p)) => earnAgentBusy

\* A timer tick or an input arrived while the timer's cycle was polling a
\* transaction's status, and was turned away.
C1_Witness ==
    /\ event.in = "trigger"
    /\ InCycle("t1") /\ task["t1"].pc = "status"
    /\ task["main"].pc = "prompt"

\* C2: a step that consumes a trigger while the busy flag is set leaves the
\* flag set and changes no task, so it puts no call in flight and keeps
\* nothing of the trigger; and a cycle starts only in the very step that
\* consumes a trigger, with the flag clear before it: a trigger turned away
\* is never run later.
C2_BusyTriggerDropped ==
    [][ /\ (event'.in = "trigger" /\ earnAgentBusy) =>
              /\ earnAgentBusy'
              /\ task' = task
              /\ UNCHANGED <<alive, timerOn, earnAgentData>>
        /\ \A p \in Tasks :
              (task[p].kind = "none" /\ task'[p].kind \in {"interval", "chat"}) =>
                  (event'.in = "trigger" /\ ~earnAgentBusy)
      ]_vars

\* A trigger was turned away while the initial check was waiting for the
\* signer.
C2_Witness ==
    /\ event.in = "trigger"
    /\ earnAgentBusy
    /\ task["main"].kind = "initial" /\ task["main"].pc = "sign"

\* Task p took a step that did not end the process.
Moved(p) == task'[p] # task[p] /\ alive'

\* The first transaction after index k that is not marked SKIPPED, 0 if none.
NextLive(txs, k) ==
    LET live == {j \in (k + 1)..Len(txs) : txs[j].status # "SKIPPED"}
    IN  IF live = {} THEN 0 ELSE CHOOSE j \in live : \A i \in live : j <= i

\* Task p is awaiting the first PATCH of transaction k of the same batch.
ConstructingNext(p, k) ==
    /\ task'[p].pc = "construct"
    /\ task'[p].txi = k
    /\ task'[p].transactions = task[p].transactions
    /\ task'[p].req.id = task[p].transactions[k].id
    /\ task'[p].cur.constructs = 1

\* Task p left the batch for the refresh that ends the step.
BatchOver(p) ==
    /\ task'[p].pc = "yields" /\ task'[p].ret = "step"
    /\ task'[p].txi = 0
    /\ task'[p].steps = task[p].steps

\* The driver went on from transaction task[p].txi to the next one not
\* marked SKIPPED, or past the end of the batch.
WentOn(p) ==
    LET k == NextLive(task[p].transactions, task[p].txi)
    IN  IF k = 0 THEN BatchOver(p) ELSE ConstructingNext(p, k)

\* C3: a transaction gets at most 3 construct calls, none after one that
\* succeeded and none once it is signed or submitted; a failed attempt before
\* the third is followed by another attempt on the same transaction; when
\* the third attempt has failed the transaction is given up unsigned and
\* unsubmitted, and the driver goes on to construct the next transaction not
\* marked SKIPPED (or ends the batch when there is none).
C3_ConstructAtMostThrice ==
    /\ [](\A p \in Tasks :
            /\ task[p].cur.constructs <= 3
            /\ task[p].pc \in {"construct", "retry_delay"} =>
                  /\ ~task[p].cur.built
                  /\ task[p].cur.signs = 0 /\ task[p].cur.submits = 0
                  /\ task[p].cur.constructs = task[p].attempt + 1)
    /\ [][\A p \in Tasks :
            (task[p].pc = "retry_delay" /\ Moved(p)) =>
                IF task[p].cur.constructs < 3
                THEN /\ task'[p].pc = "construct"
                     /\ task'[p].txi = task[p].txi
                     /\ task'[p].req = task[p].req
                     /\ task'[p].cur.constructs = task[p].cur.constructs + 1
                ELSE WentOn(p)
       ]_vars

\* The third attempt on the first transaction of a batch failed, and the
\* second transaction is being constructed.
C3_Witness ==
    /\ event.in = "retry" /\ event.val = "giveup" /\ event.rest = 1
    /\ event.by = "t1"
    /\ task["t1"].pc = "construct" /\ task["t1"].txi = 2

\* C4: when the signer or the submit call fails, the cycle ends in that very
\* step with the error thrown: the task is back home with no batch and no
\* call in flight, so none of the later transactions of the batch gets a
\* construct, sign, submit or status call, and the failed one gets no status
\* query.
C4_SignSubmitFailureStopsBatch ==
    (event.in \in {"sign", "submit"} /\ event.val = "error") =>
        /\ event.ended = "throw"
        /\ AtHome(event.by)

\* The submit call failed for a transaction that had another one after it.
C4_Witness ==
    /\ event.in = "submit" /\ event.val = "error" /\ event.rest = 1
    /\ event.ended = "throw"
    /\ AtHome(event.by)

\* C5: a CONFIRMED or FAILED reply ends the polling of the transaction: the
\* driver goes on, no query is in flight or pending for a transaction that
\* got such a reply, and it never returns to an earlier transaction of the
\* batch; a reply with any other status is followed by the 2 s delay and
\* then by another status query for the same transaction.
C5_PollingStopsAtTerminal ==
    /\ [](\A p \in Tasks :
            /\ task[p].pc \in {"status", "poll_delay"} =>
                  task[p].cur.lastStatus \notin {"CONFIRMED", "FAILED"}
            /\ (event.in = "status" /\ event.by = p /\ alive) =>
                  IF event.val = "PENDING"
                  THEN task[p].pc = "poll_delay"
                  ELSE task[p].pc \notin {"status", "poll_delay"})
    /\ [][\A p \in Tasks :
            /\ (task[p].pc = "status" /\ Moved(p)
                  /\ event'.val \in {"CONFIRMED", "FAILED"}) => WentOn(p)
            /\ (task[p].pc = "poll_delay" /\ Moved(p)) =>
                  /\ task'[p].pc = "status"
                  /\ task'[p].txi = task[p].txi
                  /\ task'[p].req = task[p].req
            /\ (task[p].txi > 0 /\ task'[p].txi > 0
                  /\ task'[p].steps = task[p].steps) => task'[p].txi >= task[p].txi
       ]_vars

\* A FAILED reply for the first transaction, and the driver constructing the
\* second.
C5_Witness ==
    /\ event.in = "status" /\ event.val = "FAILED"
    /\ task[event.by].pc = "construct" /\ task[event.by].txi = 2

\* C6: when a status query errors, the step that receives the error neither
\* throws nor queries again: the driver goes on to the next transaction not
\* marked SKIPPED, or to the end of the batch.
C6_StatusErrorIsSoft ==
    /\ []((event.in = "status" /\ event.val = "error") =>
            /\ event.ended = "no"
            /\ task[event.by].pc \notin {"status", "poll_delay"})
    /\ [][\A p \in Tasks :
            (task[p].pc = "status" /\ Moved(p) /\ event'.val = "error") => WentOn(p)
       ]_vars

\* A status query errored for the first transaction, and the driver is
\* constructing the second.
C6_Witness ==
    /\ event.in = "status" /\ event.val = "error" /\ event.rest = 1
    /\ task[event.by].pc = "construct" /\ task[event.by].txi = 2

\* The first fenced block of a reply, as the history holds it, calls for no
\* action: there is none, it does not parse, it is an empty object, an
\* object without a steps array, or an object with an empty one.
NoActionReply(e) ==
    \/ e.val \in {"none", "unparsable", "emptyobj", "nosteps", "badsteps"}
    \/ e.val = "steps" /\ e.nsteps = 0

\* Task p is awaiting the first aggregator call of a step.
InFirstCall(t) == t.pc \in {"staked", "detail", "session"}

\* C7: the step that receives a reply with no fenced block, an unparsable
\* block, an empty object, an object without a steps array or an empty steps
\* array ends the cycle by a normal return: the task is home with no step
\* started and no aggregator call in flight, so the cycle made no write.
C7_NoActionRepliesWriteNothing ==
    (event.in = "reply" /\ NoActionReply(event)) =>
        /\ event.ended = "return"
        /\ AtHome(event.by)
        /\ ~earnAgentBusy

\* A reply whose block holds an empty steps array ended a chat cycle.
C7_Witness ==
    /\ event.in = "reply" /\ event.val = "steps" /\ event.nsteps = 0
    /\ event.by = "main" /\ event.ended = "return"
    /\ task["main"].pc = "prompt"

\* C8 as stated: a reply with text after its fenced block starts no step.
C8_TrailingTextMeansNoAction ==
    (event.in = "reply" /\ event.trailing) => AtHome(event.by)

\* C8 amended: text after the fenced block is ignored.  Whether or not text
\* follows the block, a reply whose first block holds a non-empty steps array
\* starts the first step of that array (its balance query, or its action
\* session when the step carries an amount); a reply starts no step only
\* when its first block calls for no action (or is the document null).
C8_TrailingTextIsIgnored ==
    event.in = "reply" =>
        IF event.val = "steps" /\ event.nsteps > 0
        THEN /\ event.ended = "no"
             /\ Len(task[event.by].steps) = event.nsteps
             /\ InFirstCall(task[event.by])
        ELSE event.ended \in {"return", "throw"} /\ AtHome(event.by)

\* A reply with text after a block of two steps, and the action session of
\* the first step being created.
C8_Witness ==
    /\ event.in = "reply" /\ event.trailing
    /\ event.val = "steps" /\ event.nsteps = 2
    /\ task[event.by].pc = "session"

\* The amount an amount query returned is absent or not positive.
NoLiveBalance(e) ==
    \/ e.in = "staked" /\ e.val \in {"absent", "0", "-3"}
    \/ e.in = "balance" /\ e.val \in {Undefined, "0", "-3"}

\* C9: the step that receives an absent or non-positive amount for a step
\* without an amount of its own creates no action session for that step and
\* throws nothing: the task goes on to the first call of the next step of
\* the array, or returns from the cycle when there is none.
C9_NoBalanceSkipsStep ==
    [][\A p \in Tasks :
          (task[p].pc \in {"staked", "balance"} /\ Moved(p) /\ NoLiveBalance(event')) =>
              LET later == Tail(task[p].steps)
              IN  IF later = <<>>
                  THEN event'.ended = "return" /\ task'[p] = BlankTask(Home(p))
                  ELSE /\ event'.ended = "no"
                       /\ task'[p].steps = later
                       /\ InFirstCall(task'[p])
                       /\ task'[p].transactions = <<>>
                       /\ task'[p].pc = "session" =>
                             /\ ~Falsy(Head(later).amount)
                             /\ task'[p].req.amount = Head(later).amount
      ]_vars

\* An EXIT step found a staked amount of "0", and the next step, an ENTER
\* without amount, is asking for the yield's detail.
C9_Witness ==
    /\ event.in = "staked" /\ event.val = "0" /\ event.ended = "no"
    /\ Len(task[event.by].steps) = 1
    /\ task[event.by].pc = "detail"

\* The input that ends the transaction a task is driving: a terminal or
\* failed status reply, a construct reply without a body, or the third
\* failed construction attempt.
EndsTx(t, e) ==
    \/ e.in = "status" /\ e.val \in {"CONFIRMED", "FAILED", "error", "null"}
    \/ e.in = "construct" /\ e.val = "falsy"
    \/ e.in = "retry" /\ e.val = "giveup" /\ t.cur.constructs = 3

\* C10: while its cycle lasts, a task leaves the transaction it drives only
\* in a step that ends that transaction, and then for the next transaction
\* of the batch not marked SKIPPED or, after the last, for the refresh that
\* ends the step; the batch starts at its first such transaction; the steps
\* array only loses its head, and only when the step was skipped at its
\* amount query or its batch and refresh are over; so no call of a later
\* transaction or step is in flight before the earlier one has ended.
C10_StrictOrder ==
    [][\A p \in Tasks :
          (Moved(p) /\ task'[p].kind # "none") =>
              /\ (task[p].txi > 0 /\ task'[p].txi # task[p].txi) =>
                    EndsTx(task[p], event') /\ WentOn(p)
              /\ (task[p].txi = 0 /\ task'[p].txi > 0) =>
                    /\ task[p].pc = "session"
                    /\ task'[p].txi = NextLive(task'[p].transactions, 0)
                    /\ task'[p].pc = "construct"
              /\ (task'[p].pc = "yields" /\ task'[p].ret = "step" /\ task[p].ret # "step") =>
                    \/ task[p].pc = "session" /\ NextLive(task'[p].transactions, 0) = 0
                    \/ task[p].txi > 0 /\ EndsTx(task[p], event')
                          /\ NextLive(task[p].transactions, task[p].txi) = 0
              /\ task'[p].steps # task[p].steps =>
                    \/ task[p].pc = "ai" /\ task[p].steps = <<>>
                    \/ /\ task[p].steps # <<>>
                       /\ task'[p].steps = Tail(task[p].steps)
                       /\ \/ task[p].pc \in {"staked", "balance"}
                          \/ task[p].pc = "idle_balances" /\ task[p].ret = "step"
              /\ (InFirstCall(task'[p]) /\ ~InFirstCall(task[p])) =>
                    \/ task[p].pc = "ai"
                    \/ task[p].pc = "balance"
                    \/ task[p].pc = "idle_balances" /\ task[p].ret = "step"
      ]_vars

\* The refresh after a step is over and the next step's action session is
\* being created.
C10_Witness ==
    /\ event.in = "refreshed" /\ event.val = "step"
    /\ Len(task[event.by].steps) = 1
    /\ task[event.by].pc = "session"

\* Task record t has an action session: it awaits the session's creation or
\* a call of the transaction driver.
InBatch(t) ==
    t.pc \in {"session", "construct", "retry_delay", "sign", "submit", "status", "poll_delay"}

\* Task record t is inside the refresh that ends a step.
InStepRefresh(t) ==
    t.ret = "step" /\ t.pc \in {"yields", "positions", "idle_balances"}

\* Every part of the snapshot was written by the latest refresh.
FreshSnapshot(d) ==
    d.yields = 0 /\ d.earningPositions = 0 /\ d.idleTokenBalances = 0

\* C11: a step that has an action session leaves its batch, while the cycle
\* lasts, only for the refresh that ends the step, whatever became of the
\* batch's transactions; from inside that refresh the task reaches the first
\* call of the next step, or the normal end of the cycle, only in the step in
\* which the refresh completes, with every part of the snapshot written by
\* that refresh; until then the steps array is untouched.
C11_RefreshAfterStep ==
    [][\A p \in Tasks :
          /\ (InBatch(task[p]) /\ Moved(p) /\ task'[p].kind # "none") =>
                \/ InBatch(task'[p]) /\ task'[p].pc # "session"
                       /\ task'[p].steps = task[p].steps
                \/ BatchOver(p)
          /\ (InBatch(task[p]) /\ Moved(p) /\ task'[p].kind = "none") =>
                event'.ended = "throw"
          /\ (InStepRefresh(task[p]) /\ Moved(p)) =>
                \/ InStepRefresh(task'[p]) /\ task'[p].steps = task[p].steps
                \/ event'.ended = "throw" /\ task'[p] = BlankTask(Home(p))
                \/ /\ task[p].pc = "idle_balances"
                   /\ event'.in = "refreshed" /\ event'.val = "step"
                   /\ FreshSnapshot(earnAgentData')
                   /\ IF Tail(task[p].steps) = <<>>
                      THEN event'.ended = "return" /\ task'[p] = BlankTask(Home(p))
                      ELSE /\ task'[p].steps = Tail(task[p].steps)
                           /\ InFirstCall(task'[p])
      ]_vars

\* The refresh after the first step's batch has completed with a snapshot
\* all of one refresh, and the second step is asking for its staked amount.
C11_Witness ==
    /\ event.in = "refreshed" /\ event.val = "step"
    /\ FreshSnapshot(earnAgentData)
    /\ Len(task[event.by].steps) = 1
    /\ task[event.by].pc = "staked"

\* C12: whenever a task of a cycle is waiting for the reasoning service's
\* reply, a refresh has completed in that cycle, after the cycle set the busy
\* flag: the prompt was built from a snapshot no older than the cycle.
C12_RefreshBeforeAsking ==
    \A p \in Tasks : task[p].pc = "ai" => task[p].refreshed

\* C13: the step of a cycle's own task that ends the cycle, by a return or
\* by a throw, clears the busy flag, keeps the process alive and puts the
\* task back where it waits for triggers; the flag is never left set with no
\* cycle in progress; and right after a cycle ended both a typed line and a
\* timer tick start a new cycle.
C13_FlagReleasedOnEveryExit ==
    /\ []((alive /\ earnAgentBusy) => \E p \in Tasks : InCycle(p))
    /\ [](event.ended \in {"return", "throw"} =>
            /\ alive /\ ~earnAgentBusy
            /\ AtHome(event.by)
            /\ ENABLED InputStart
            /\ ENABLED (\E q \in TimerTasks : TickStart(q)))
    /\ [][\A p \in Tasks :
            (InCycle(p) /\ event'.by = p /\ task'[p].kind = "none") =>
                /\ event'.ended \in {"return", "throw"}
                /\ alive' /\ ~earnAgentBusy'
                /\ task'[p] = BlankTask(Home(p))
       ]_vars

\* A cycle ended by the failure of its staked-amount query: the flag is
\* clear and the process alive.
C13_Witness ==
    /\ event.in = "staked" /\ event.val = "error" /\ event.ended = "throw"
    /\ alive /\ ~earnAgentBusy
    /\ AtHome(event.by)

\* The three parts of the snapshot were written by one and the same refresh.
OfOneRefresh(d) ==
    d.yields = d.earningPositions /\ d.earningPositions = d.idleTokenBalances

\* C14: whenever a task is waiting for the reasoning service's reply, whose
\* prompt was built from the snapshot as it then was and still is, the
\* yields, the positions and the idle balances of the snapshot were written
\* by one and the same refresh.
C14_SnapshotOfOneRefresh ==
    (alive /\ \E p \in Tasks : task[p].pc = "ai") => OfOneRefresh(earnAgentData)

\* Task record t awaits a call of the transaction driver, or one of its
\* delays.
InDriver(t) ==
    t.pc \in {"construct", "retry_delay", "sign", "submit", "status", "poll_delay"}

\* C15: every call or delay of the transaction driver is for a transaction
\* of the batch that is not marked SKIPPED, and carries that transaction's
\* identifier; a batch that arrived, whatever its SKIPPED marks, throws
\* nothing: its first transaction not marked SKIPPED is constructed, or the
\* step goes to its refresh when there is none; and whenever the driver moves
\* to another transaction, it is the first one after the current one that is
\* not marked SKIPPED, the marked ones in between being passed over.
C15_SkippedIsPassedOver ==
    /\ [](\A p \in Tasks :
            /\ InDriver(task[p]) <=> task[p].txi > 0
            /\ task[p].txi > 0 =>
                  /\ task[p].txi <= Len(task[p].transactions)
                  /\ task[p].transactions[task[p].txi].status # "SKIPPED"
                  /\ task[p].req.id = task[p].transactions[task[p].txi].id)
    /\ []((event.in = "session" /\ event.val = "batch") =>
            /\ event.ended = "no"
            /\ LET t == task[event.by]
                   k == NextLive(t.transactions, 0)
               IN  /\ (k = 0) = (event.rest = 0)
                   /\ IF k = 0 THEN t.pc = "yields" /\ t.ret = "step"
                      ELSE t.pc = "construct" /\ t.txi = k)
    /\ [][\A p \in Tasks :
            (Moved(p) /\ task'[p].txi > 0 /\ task'[p].txi # task[p].txi) =>
                /\ task'[p].txi = NextLive(task'[p].transactions, task[p].txi)
                /\ task'[p].pc = "construct"
       ]_vars

\* The first transaction of a batch is marked SKIPPED and the second one has
\* been submitted: its status is being queried.
C15_Witness ==
    \E p \in Tasks :
        /\ task[p].txi = 2 /\ task[p].pc = "status"
        /\ task[p].transactions[1].status = "SKIPPED"

\* C16: while a step that carries an amount of its own is current, no
\* staked-balance, yield-detail or idle-balance query is in flight and the
\* action session is created with exactly that amount; and a step without
\* one whose query returned a positive amount creates its session with
\* exactly the returned amount: the staked amount for an EXIT, the idle
\* balance of the yield's token for an ENTER.
C16_AmountResolution ==
    /\ [](\A p \in Tasks :
            (task[p].steps # <<>> /\ Head(task[p].steps).amount # Undefined) =>
                /\ task[p].pc \notin {"staked", "detail", "balance"}
                /\ task[p].pc = "session" =>
                      task[p].req.amount = Head(task[p].steps).amount)
    /\ [][\A p \in Tasks :
            /\ (task[p].pc = "staked" /\ Moved(p) /\ event'.val = "50") =>
                  /\ Head(task[p].steps).type = "EXIT"
                  /\ task'[p].pc = "session"
                  /\ task'[p].req.amount = event'.val
                  /\ task'[p].steps = task[p].steps
            /\ (task[p].pc = "balance" /\ Moved(p) /\ event'.val = "50"
                  /\ Head(task[p].steps).type = "ENTER") =>
                  /\ task'[p].pc = "session"
                  /\ task'[p].req.amount = event'.val
                  /\ task'[p].steps = task[p].steps
       ]_vars

\* C17: the signer is called for a transaction only in the step that
\* receives a successful construct reply for it, the submit call is made only
\* in the step in which the signer succeeded, and a status query goes out
\* only in the step in which the submit call succeeded or a polling delay
\* ran out; a transaction is signed at most once and submitted at most once,
\* never before it was constructed; and every call of the driver carries the
\* identifier of the transaction being driven, which changes only when the
\* driver moves to another transaction.
C17_LifecycleOrder ==
    /\ [](\A p \in Tasks :
            LET t == task[p]
            IN  /\ t.cur.signs <= 1 /\ t.cur.submits <= 1
                /\ t.cur.signs > 0 => t.cur.built
                /\ t.cur.submits > 0 => t.cur.signs = 1
                /\ t.cur.polled => t.cur.submits = 1
                /\ t.pc = "sign" => t.cur.signs = 1 /\ t.cur.submits = 0
                /\ t.pc = "submit" => t.cur.submits = 1 /\ ~t.cur.polled
                /\ t.pc \in {"status", "poll_delay"} => t.cur.polled
                /\ InDriver(t) => t.req.id = t.transactions[t.txi].id)
    /\ [][\A p \in Tasks :
            /\ (task'[p].pc = "sign" /\ task[p].pc # "sign") =>
                  /\ task[p].pc = "construct"
                  /\ event'.in = "construct" /\ event'.val = "ok"
            /\ (task'[p].pc = "submit" /\ task[p].pc # "submit") =>
                  /\ task[p].pc = "sign"
                  /\ event'.in = "sign" /\ event'.val = "ok"
            /\ (task'[p].pc = "status" /\ task[p].pc # "status") =>
                  \/ task[p].pc = "submit" /\ event'.in = "submit" /\ event'.val = "ok"
                  \/ task[p].pc = "poll_delay"
            /\ (InDriver(task[p]) /\ InDriver(task'[p]) /\ task'[p].txi = task[p].txi) =>
                  /\ task'[p].req.id = task[p].req.id
                  /\ task'[p].cur.signs >= task[p].cur.signs
                  /\ task'[p].cur.submits >= task[p].cur.submits
       ]_vars

\* The second transaction of a batch was constructed at its second attempt,
\* then signed once and submitted once, and its status is being queried.
C17_Witness ==
    \E p \in Tasks :
        /\ task[p].pc = "status" /\ task[p].txi = 2
        /\ task[p].cur.constructs = 2
        /\ task[p].cur.signs = 1 /\ task[p].cur.submits = 1
        /\ task[p].req.id = 2

\* C18: the step in which the signer or the submit call of a task fails ends
\* that task's cycle by a throw, whatever steps came after the current one:
\* the task is back where it waits for triggers, with no steps left to run
\* and no call in flight, so no later step gets an aggregator call and the
\* refresh after the step does not run (the snapshot is untouched); the busy
\* flag is cleared and the process stays alive.
C18_SignSubmitFailureEndsCycle ==
    [][\A p \in Tasks :
          (task[p].pc \in {"sign", "submit"} /\ event'.by = p /\ event'.val = "error") =>
              /\ event'.ended = "throw"
              /\ task'[p] = BlankTask(Home(p))
              /\ \A q \in Tasks \ {p} : task'[q] = task[q]
              /\ earnAgentData' = earnAgentData
              /\ ~earnAgentBusy' /\ alive'
      ]_vars

\* The signer failed in the first of two steps: the cycle is over and the
\* flag clear.
C18_Witness ==
    /\ event.in = "sign" /\ event.val = "error" /\ event.nsteps = 1
    /\ event.ended = "throw"
    /\ AtHome(event.by) /\ ~earnAgentBusy /\ alive

\* C19: under LiveSpec every cycle in progress comes to its end, and then
\* the busy flag is clear (or the process has exited: a cancelled prompt
\* ends the process and every task with it); a status reply that is neither
\* terminal nor a failure is followed by the delay and the delay by a query
\* for the same transaction, so the driver does not move to another
\* transaction meanwhile; and the flag is set for as long as a task is
\* polling.
C19_CyclesEndPollingHolds ==
    /\ \A p \in Tasks :
          InCycle(p) ~> (~InCycle(p) /\ (~earnAgentBusy \/ ~alive))
    /\ [](\A p \in Tasks :
            task[p].pc \in {"status", "poll_delay"} => earnAgentBusy /\ InCycle(p))
    /\ [][\A p \in Tasks :
            /\ (task[p].pc = "status" /\ event'.by = p /\ event'.val = "PENDING") =>
                  /\ task'[p].pc = "poll_delay"
                  /\ task'[p].txi = task[p].txi
                  /\ earnAgentBusy'
            /\ (task[p].pc = "poll_delay" /\ Moved(p)) =>
                  /\ task'[p].pc = "status"
                  /\ task'[p].txi = task[p].txi
                  /\ task'[p].req.id = task[p].req.id
                  /\ earnAgentBusy'
       ]_vars

\* A pending reply for the first of two transactions: the driver waits to
\* query it again, the flag is set.
C19_Witness ==
    /\ event.in = "status" /\ event.val = "PENDING" /\ event.rest = 1
    /\ task[event.by].pc = "poll_delay" /\ task[event.by].txi = 1
    /\ earnAgentBusy

\* C20: while an EXIT step is current no yield-detail or idle-balance query
\* is in flight and its action session is posted to the exit action; while an
\* ENTER step is current no staked-balance query is in flight and its session
\* is posted to the enter action; and while a step of any other direction is
\* current no action session is being created or driven.
C20_DirectionDecides ==
    \A p \in Tasks :
        task[p].steps # <<>> =>
            LET t == task[p]
                type == Head(t.steps).type
            IN  /\ type = "EXIT" =>
                      /\ t.pc \notin {"detail", "balance"}
                      /\ t.pc = "session" => t.req.endpoint = "exit"
                /\ type = "ENTER" =>
                      /\ t.pc # "staked"
                      /\ t.pc = "session" => t.req.endpoint = "enter"
                /\ type \notin {"ENTER", "EXIT"} => ~InBatch(t)

====
